---- MODULE Spec2Model ----
(***************************************************************************)
(* Model of pkg/hypervisor/hypervisor.go: the visor registry (hv.visors    *)
(* guarded by hv.mu), the accept loop (ServeRPC), AddMockData, the         *)
(* scatter-gather handler getVisors, the resolver chain (visorCtx, appCtx, *)
(* tpCtx, routeCtx, withCtx) and the handlers built on it.                 *)
(*                                                                         *)
(* Every goroutine is modelled from one blocking point to the next: a      *)
(* step ends where the goroutine waits for the lock, for a remote call,    *)
(* for a channel or for the WaitGroup.                                     *)
(***************************************************************************)
EXTENDS Integers, Sequences, FiniteSets, TLC

\* ---------------------------------------------------------------- bounds
NumPK == 2          \* distinct public keys that ever show up
MaxAccept == 2      \* streams the accept loop accepts before the model stops it
MockVisors == 1     \* MockConfig.Visors
MaxBatch == 1       \* concurrent getVisors requests
MaxReq == 1         \* concurrent requests that go through withCtx
MaxClock == 7       \* seconds the clock runs for

PKs == 1..NumPK
Batches == 1..MaxBatch
Reqs == 1..MaxReq
NoTask == "none"    \* no goroutine

VARIABLES
    visors,     \* hv.visors: PK -> VisorConn, NoConn where the key is absent
    mu,         \* hv.mu: [readers, writer, wcs]
    acc,        \* ServeRPC: [pc, n, conn, err]
    mock,       \* AddMockData: [pc, i, conn]
    lastIns,    \* history: PK -> the VisorConn of the last insert for it
    bpc,        \* getVisors request b: "idle","rlock","wait","joined","done"
    snap,       \* b -> the (pk, c) pairs handed to the goroutines, by index i
    summaries,  \* b -> the summaries slice
    task,       \* b -> i -> "run", "ok", "err": goroutine i and its RPC result
    wg,         \* b -> the WaitGroup counter
    bresp,      \* b -> the bodies written by WriteJSON, in order
    req,        \* r -> the request record of a withCtx handler
    clock       \* seconds

vars == <<visors, mu, acc, mock, lastIns, bpc, snap, summaries, task, wg,
          bresp, req, clock>>

regVars == <<visors, mu, lastIns>>
batchVars == <<bpc, snap, summaries, task, wg, bresp>>

\* ------------------------------------------------------- values and helpers
\* dmsg.Addr
Addr(pk, port) == [pk |-> pk, port |-> port]
ZeroAddr == Addr(0, 0)

\* VisorConn: the RPC client is named by the stream (or mock client) it wraps
VisorConn(addr, rpc) == [addr |-> addr, rpc |-> rpc]
\* the zero VisorConn: what a map read of an absent key yields
NoConn == VisorConn(ZeroAddr, <<"nil", 0>>)

\* the keys present in the map
Keys(m) == {k \in PKs : m[k] # NoConn}

\* hv.visors[pk] = c
InsertKeep(m, pk, c) == IF m[pk] = NoConn THEN [m EXCEPT ![pk] = c] ELSE m
Insert(m, pk, c) == [m EXCEPT ![pk] = c]

\* all orders in which `for pk, c := range hv.visors` can visit the keys
Orders(S) == {s \in [1..Cardinality(S) -> S] : \A i, j \in DOMAIN s : i # j => s[i] # s[j]}

\* ------------------------------------------------------------- sync.RWMutex
\* mu.writer is the goroutine that has called Lock and holds the writer
\* mutex; from then on new RLock calls wait.  mu.wcs: it is past Lock.
CanRLock == mu.writer = NoTask
RLock(t) == [mu EXCEPT !.readers = @ \cup {t}]
RUnlock(t) == [mu EXCEPT !.readers = @ \ {t}]
CanAnnounce == mu.writer = NoTask
Announce(t) == [mu EXCEPT !.writer = t]
CanEnterPastReaders(t) == mu.writer = t
CanEnter(t) == mu.writer = t /\ mu.readers = {}
Enter == [mu EXCEPT !.wcs = TRUE]
Unlock == [mu EXCEPT !.writer = NoTask, !.wcs = FALSE]

\* --------------------------------------------------------------- ServeRPC
\* lis.AcceptStream() returns a stream from pk; the VisorConn is built
AccAccept(pk) ==
    /\ acc.pc = "accept"
    /\ acc.n < MaxAccept
    /\ acc' = [acc EXCEPT !.pc = "lock", !.n = @ + 1,
                          !.conn = VisorConn(Addr(pk, 0), <<"stream", acc.n + 1>>)]
    /\ UNCHANGED <<regVars, mock, batchVars, req, clock>>

\* lis.AcceptStream() fails: return err
AccFailGoesOn ==
    /\ acc.pc = "accept"
    /\ ~acc.err
    /\ acc' = [acc EXCEPT !.err = TRUE]
    /\ UNCHANGED <<regVars, mock, batchVars, req, clock>>
AccFail ==
    /\ acc.pc = "accept"
    /\ acc' = [acc EXCEPT !.pc = "returned", !.err = TRUE]
    /\ UNCHANGED <<regVars, mock, batchVars, req, clock>>

\* hv.mu.Lock(): the writer is announced, later readers queue behind it
AccLock ==
    /\ acc.pc = "lock"
    /\ CanAnnounce
    /\ mu' = Announce("acc")
    /\ acc' = [acc EXCEPT !.pc = "announced"]
    /\ UNCHANGED <<visors, lastIns, mock, batchVars, req, clock>>

\* hv.mu.Lock() returns once the readers have left
AccEnter ==
    /\ acc.pc = "announced"
    /\ CanEnter("acc")
    /\ mu' = Enter
    /\ acc' = [acc EXCEPT !.pc = "cs"]
    /\ UNCHANGED <<visors, lastIns, mock, batchVars, req, clock>>

\* hv.visors[addr.PK] = visorConn; hv.mu.Unlock()
AccInsertUnlessKnown ==
    /\ acc.pc = "cs"
    /\ visors' = InsertKeep(visors, acc.conn.addr.pk, acc.conn)
    /\ lastIns' = [lastIns EXCEPT ![acc.conn.addr.pk] = acc.conn]
    /\ mu' = Unlock
    /\ acc' = [acc EXCEPT !.pc = "accept", !.conn = NoConn]
    /\ UNCHANGED <<mock, batchVars, req, clock>>
AccInsert ==
    /\ acc.pc = "cs"
    /\ visors' = Insert(visors, acc.conn.addr.pk, acc.conn)
    /\ lastIns' = [lastIns EXCEPT ![acc.conn.addr.pk] = acc.conn]
    /\ mu' = Unlock
    /\ acc' = [acc EXCEPT !.pc = "accept", !.conn = NoConn]
    /\ UNCHANGED <<mock, batchVars, req, clock>>

\* ------------------------------------------------------------ AddMockData
\* visor.NewMockRPCClient returns a random pk and its client
MockNew(pk) ==
    /\ mock.pc = "loop"
    /\ mock.i < MockVisors
    /\ mock' = [mock EXCEPT !.pc = "lock",
                            !.conn = VisorConn(Addr(pk, mock.i), <<"mock", mock.i>>)]
    /\ UNCHANGED <<regVars, acc, batchVars, req, clock>>

MockLock ==
    /\ mock.pc = "lock"
    /\ CanAnnounce
    /\ mu' = Announce("mock")
    /\ mock' = [mock EXCEPT !.pc = "announced"]
    /\ UNCHANGED <<visors, lastIns, acc, batchVars, req, clock>>

MockEnter ==
    /\ mock.pc = "announced"
    /\ CanEnter("mock")
    /\ mu' = Enter
    /\ mock' = [mock EXCEPT !.pc = "cs"]
    /\ UNCHANGED <<visors, lastIns, acc, batchVars, req, clock>>

MockInsert ==
    /\ mock.pc = "cs"
    /\ visors' = Insert(visors, mock.conn.addr.pk, mock.conn)
    /\ lastIns' = [lastIns EXCEPT ![mock.conn.addr.pk] = mock.conn]
    /\ mu' = Unlock
    /\ mock' = [mock EXCEPT !.pc = "loop", !.i = @ + 1, !.conn = NoConn]
    /\ UNCHANGED <<acc, batchVars, req, clock>>

\* ---------------------------------------------------------------- getVisors
\* summaryResp
NilSummary == [pk |-> 0, full |-> FALSE]
ZeroResp == [tcpAddr |-> ZeroAddr, online |-> FALSE, summary |-> NilSummary]
\* what c.RPC.Summary() returns when it succeeds
FullSummary(c) == [pk |-> c.addr.pk, full |-> TRUE]
\* &visor.Summary{PubKey: pk}
FallbackSummary(pk) == [pk |-> pk, full |-> FALSE]

\* summaries[i] = summaryResp{...} as goroutine i writes it
SlotAlwaysOnline(pk, c, ok) ==
    [tcpAddr |-> c.addr, online |-> TRUE,
     summary |-> IF ok THEN FullSummary(c) ELSE FallbackSummary(pk)]
Slot(pk, c, ok) ==
    [tcpAddr |-> c.addr, online |-> ok,
     summary |-> IF ok THEN FullSummary(c) ELSE FallbackSummary(pk)]

\* the request arrives and calls hv.mu.RLock()
BatchCall(b) ==
    /\ bpc[b] = "idle"
    /\ bpc' = [bpc EXCEPT ![b] = "rlock"]
    /\ UNCHANGED <<regVars, acc, mock, snap, summaries, task, wg, bresp, req, clock>>

\* the pairs of the map in the order ord
SnapshotDropLast(m, ord) == [i \in 1..(Len(ord) - 1) |-> [pk |-> ord[i], c |-> m[ord[i]]]]
Snapshot(m, ord) == [i \in 1..Len(ord) |-> [pk |-> ord[i], c |-> m[ord[i]]]]

\* RLock acquired; wg.Add(len), make([]summaryResp, len), one goroutine per entry
BatchStart(b) ==
    /\ bpc[b] = "rlock"
    /\ CanRLock
    /\ mu' = RLock(<<"batch", b>>)
    /\ \E ord \in Orders(Keys(visors)) :
         LET s == Snapshot(visors, ord) IN
         /\ snap' = [snap EXCEPT ![b] = s]
         /\ summaries' = [summaries EXCEPT ![b] = [i \in 1..Cardinality(Keys(visors)) |-> ZeroResp]]
         /\ task' = [task EXCEPT ![b] = [i \in 1..Len(s) |-> "run"]]
         /\ wg' = [wg EXCEPT ![b] = Cardinality(Keys(visors))]
    /\ bpc' = [bpc EXCEPT ![b] = "wait"]
    /\ UNCHANGED <<visors, lastIns, acc, mock, bresp, req, clock>>

\* goroutine i: c.RPC.Summary() returns, the slot is written, wg.Done()
SummaryReturnDropFailed(b, i, ok) ==
    /\ bpc[b] = "wait"
    /\ i \in DOMAIN task[b]
    /\ task[b][i] = "run"
    /\ task' = [task EXCEPT ![b][i] = IF ok THEN "ok" ELSE "err"]
    /\ summaries' = [summaries EXCEPT ![b][i] = Slot(snap[b][i].pk, snap[b][i].c, ok)]
    /\ wg' = [wg EXCEPT ![b] = @ - 1]
    /\ visors' = IF ok THEN visors ELSE [visors EXCEPT ![snap[b][i].pk] = NoConn]
    /\ UNCHANGED <<mu, lastIns, acc, mock, bpc, snap, bresp, req, clock>>
SummaryReturnSharedIndex(b, i, ok) ==
    /\ bpc[b] = "wait"
    /\ i \in DOMAIN task[b]
    /\ task[b][i] = "run"
    /\ task' = [task EXCEPT ![b][i] = IF ok THEN "ok" ELSE "err"]
    /\ summaries' = [summaries EXCEPT ![b][1] = Slot(snap[b][i].pk, snap[b][i].c, ok)]
    /\ wg' = [wg EXCEPT ![b] = @ - 1]
    /\ UNCHANGED <<regVars, acc, mock, bpc, snap, bresp, req, clock>>
SummaryReturn(b, i, ok) ==
    /\ bpc[b] = "wait"
    /\ i \in DOMAIN task[b]
    /\ task[b][i] = "run"
    /\ task' = [task EXCEPT ![b][i] = IF ok THEN "ok" ELSE "err"]
    /\ summaries' = [summaries EXCEPT ![b][i] = Slot(snap[b][i].pk, snap[b][i].c, ok)]
    /\ wg' = [wg EXCEPT ![b] = @ - 1]
    /\ UNCHANGED <<regVars, acc, mock, bpc, snap, bresp, req, clock>>

\* wg.Wait() returns; hv.mu.RUnlock()
BatchJoinEarly(b) ==
    /\ bpc[b] = "wait"
    /\ mu' = RUnlock(<<"batch", b>>)
    /\ bpc' = [bpc EXCEPT ![b] = "joined"]
    /\ UNCHANGED <<visors, lastIns, acc, mock, snap, summaries, task, wg, bresp, req, clock>>
BatchJoin(b) ==
    /\ bpc[b] = "wait"
    /\ wg[b] = 0
    /\ mu' = RUnlock(<<"batch", b>>)
    /\ bpc' = [bpc EXCEPT ![b] = "joined"]
    /\ UNCHANGED <<visors, lastIns, acc, mock, snap, summaries, task, wg, bresp, req, clock>>

\* httputil.WriteJSON(w, r, http.StatusOK, summaries)
BatchRespond(b) ==
    /\ bpc[b] = "joined"
    /\ bresp' = [bresp EXCEPT ![b] = Append(@, summaries[b])]
    /\ bpc' = [bpc EXCEPT ![b] = "done"]
    /\ UNCHANGED <<regVars, acc, mock, snap, summaries, task, wg, req, clock>>

\* ------------------------------------------------------------ path parameters
\* path parameters are token strings, written as sequences of characters
BadPKTok == <<"zz">>
PKTok(pk) == <<"pk", pk>>
PKToks == {PKTok(pk) : pk \in PKs} \cup {BadPKTok}

\* pkFromParam: pk.UnmarshalText accepts exactly the well-formed keys
pkFromParam(tok) ==
    IF \E pk \in PKs : tok = PKTok(pk)
    THEN [pk |-> tok[2], err |-> FALSE]
    ELSE [pk |-> 0, err |-> TRUE]

UuidToks == {<<"uuid-1">>, <<"uuid-2">>}
TidToks == UuidToks \cup {<<"not-a-uuid">>}
\* uuidFromParam: uuid.Parse
uuidAcceptAll(tok) == [id |-> tok[1], err |-> FALSE]
uuidFromParam(tok) ==
    IF tok \in UuidToks THEN [id |-> tok[1], err |-> FALSE] ELSE [id |-> "nil", err |-> TRUE]

DigitChars == <<"0", "1", "2", "3", "4", "5", "6", "7", "8", "9">>
IsDigit(c) == \E d \in 1..10 : DigitChars[d] = c
DigitVal(c) == (CHOOSE d \in 1..10 : DigitChars[d] = c) - 1
\* a uint32 is kept as two 16-bit halves, value = hi * 2^16 + lo
Half == 65536
U32(hi, lo) == [hi |-> hi, lo |-> lo]
MaxUint32 == U32(Half - 1, Half - 1)

\* n * 10 + d, with over set once the value no longer fits 32 bits
Shift10Wrap(n, d) ==
    LET lo == n.lo * 10 + d
        hi == n.hi * 10 + (lo \div Half) IN
    [hi |-> hi % Half, lo |-> lo % Half, over |-> FALSE]
Shift10(n, d) ==
    LET lo == n.lo * 10 + d
        hi == n.hi * 10 + (lo \div Half) IN
    [hi |-> hi % Half, lo |-> lo % Half, over |-> n.over \/ hi >= Half]

RECURSIVE DecimalValue(_)
DecimalValue(s) ==
    IF s = <<>> THEN [hi |-> 0, lo |-> 0, over |-> FALSE]
    ELSE Shift10(DecimalValue(SubSeq(s, 1, Len(s) - 1)), DigitVal(s[Len(s)]))

\* strconv.ParseUint(s, 10, 32): syntax error, range error, or the value
ParseUint32(s) ==
    IF s = <<>> \/ \E i \in 1..Len(s) : ~IsDigit(s[i])
    THEN [val |-> U32(0, 0), err |-> TRUE]
    ELSE IF DecimalValue(s).over
         THEN [val |-> MaxUint32, err |-> TRUE]
         ELSE [val |-> U32(DecimalValue(s).hi, DecimalValue(s).lo), err |-> FALSE]

\* ridFromParam
ridFromParam(tok) ==
    IF ParseUint32(tok).err THEN [rid |-> U32(0, 0), err |-> TRUE]
    ELSE [rid |-> ParseUint32(tok).val, err |-> FALSE]

RidToks == {<<"0">>, <<"7">>, <<"0", "7">>, <<"-", "1">>, <<"x">>,
            <<"6", "5", "5", "3", "6">>,
            <<"4", "2", "9", "4", "9", "6", "7", "2", "9", "5">>,
            <<"4", "2", "9", "4", "9", "6", "7", "2", "9", "6">>}

AppNames == {"skysocks", "skysocks-client"}
AppToks == {<<n>> : n \in AppNames}
\* visor.AppState; tag tells the entries of a list apart, and the entry
\* tagged 2 is the one that has AutoStart set
AppState(name, tag) == [name |-> name, tag |-> tag, autoStart |-> (tag = 2)]
NoApp == AppState("", 0)
\* the lists ctx.RPC.Apps() may return
AppLists == {<<>>,
             <<AppState("skysocks", 1)>>,
             <<AppState("skysocks-client", 1), AppState("skysocks", 2)>>,
             <<AppState("skysocks", 1), AppState("skysocks", 2)>>}

NoTp == [id |-> "nil"]

\* ------------------------------------------------------------------ routes
\* which resolver each handler is registered with (withCtx's vFunc)
Chain(kind) ==
    CASE kind \in {"getApp", "putApp", "appLogsSince"} -> "app"
      [] kind \in {"getTransport", "deleteTransport"} -> "tp"
      [] kind \in {"getRoute", "putRoute", "deleteRoute"} -> "route"
      [] OTHER -> "visor"

VisorKinds == {"getVisor", "getUptime", "getApps", "getTransportTypes",
               "getTransports", "postTransport", "getRoutes", "postRoute",
               "getRouteGroups", "restart", "exec", "update", "updateAvailable"}
AppKinds == {"getApp", "appLogsSince"}
TpKinds == {"getTransport", "deleteTransport"}
RouteKinds == {"getRoute", "putRoute", "deleteRoute"}
Kinds == VisorKinds \cup AppKinds \cup TpKinds \cup RouteKinds

\* the second path parameter a route of this kind carries
ArgToks(kind) ==
    CASE Chain(kind) = "app" -> AppToks
      [] Chain(kind) = "tp" -> TidToks
      [] Chain(kind) = "route" -> RidToks
      [] OTHER -> {<<>>}

\* handlers that parse a body or a query before their RPC call
ParsesInput(kind) ==
    kind \in {"getTransports", "postTransport", "getRoutes", "postRoute",
              "getRoute", "putRoute", "exec"}

\* the one RPC method the handler calls, "" when it calls none
Method(kind) ==
    CASE kind = "getVisor" -> "Summary"
      [] kind = "getUptime" -> "Uptime"
      [] kind = "getApps" -> "Apps"
      [] kind = "appLogsSince" -> "LogsSince"
      [] kind = "getTransportTypes" -> "TransportTypes"
      [] kind = "getTransports" -> "Transports"
      [] kind = "postTransport" -> "AddTransport"
      [] kind = "deleteTransport" -> "RemoveTransport"
      [] kind = "getRoutes" -> "RoutingRules"
      [] kind = "postRoute" -> "SaveRoutingRule"
      [] kind = "getRoute" -> "RoutingRule"
      [] kind = "putRoute" -> "SaveRoutingRule"
      [] kind = "deleteRoute" -> "RemoveRoutingRule"
      [] kind = "getRouteGroups" -> "RouteGroups"
      [] kind = "restart" -> "Restart"
      [] kind = "exec" -> "Exec"
      [] kind = "update" -> "Update"
      [] kind = "updateAvailable" -> "UpdateAvailable"
      [] OTHER -> ""

\* how an RPC call can end: err == nil, err with visor.ErrNotFound's text, any other err
Outcomes == {"ok", "notfound", "other"}

\* the status the handler writes when its RPC call returns err != nil
ErrStatusAll500(kind) == 500
ErrStatus(kind) == IF kind \in {"getRoute", "deleteRoute"} THEN 404 ELSE 500

\* putApp's reqBody; a pointer field is the empty sequence when nil and
\* the one-element sequence of its value otherwise
ZeroBody == [autoStart |-> <<>>, status |-> <<>>, passcode |-> <<>>, pk |-> <<>>]
\* the bodies ReadJSON can decode
Bodies ==
    [autoStart : {<<>>, <<TRUE>>, <<FALSE>>},
     status : {<<>>, <<0>>, <<1>>, <<2>>},
     passcode : {<<>>, <<"secret">>},
     pk : {<<>>, <<1>>}]

\* ------------------------------------------------------------------ withCtx
ZeroReq ==
    [pc |-> "idle", kind |-> "", pkTok |-> <<>>, argTok |-> <<>>, inputOK |-> TRUE,
     conn |-> NoConn, app |-> NoApp, tp |-> NoTp, rtKey |-> U32(0, 0),
     vok |-> "pending", failed |-> "none", ran |-> FALSE,
     resp |-> <<>>, calls |-> <<>>, via |-> <<>>, rets |-> <<>>, lookups |-> 0,
     apps |-> <<>>,
     g |-> "none", vh |-> <<>>, deadline |-> -1, fired |-> FALSE, tRet |-> -1,
     body |-> ZeroBody, step |-> 0]

\* httputil.WriteJSON(w, r, status, ...)
WriteJSON(rq, status) == [rq EXCEPT !.resp = Append(@, status)]
\* a resolver stage writes its failure and returns (nil, false)
StageFailNoStop(rq, stage, status) ==
    [WriteJSON(rq, status) EXCEPT !.vok = "false", !.failed = stage, !.pc = "ctx"]
StageFail(rq, stage, status) ==
    [WriteJSON(rq, status) EXCEPT !.vok = "false", !.failed = stage, !.pc = "done"]
\* ctx.RPC.<method>() is issued: the receiver is the RPC client held in the context
CallRPCReResolve(rq, method) ==
    [rq EXCEPT !.calls = Append(@, method),
               !.via = Append(@, visors[pkFromParam(rq.pkTok).pk].rpc)]
CallRPC(rq, method) ==
    [rq EXCEPT !.calls = Append(@, method), !.via = Append(@, rq.conn.rpc)]

\* the request arrives; visorCtx parses {pk} and calls hv.visorConn(pk)
ReqArrive(r, kind, pkTok, argTok, inputOK) ==
    /\ req[r].pc = "idle"
    /\ LET rq == [req[r] EXCEPT !.kind = kind, !.pkTok = pkTok, !.argTok = argTok,
                                !.inputOK = inputOK] IN
       req' = [req EXCEPT ![r] =
                 IF pkFromParam(pkTok).err THEN StageFail(rq, "node", 400)
                 ELSE [rq EXCEPT !.pc = "rlock"]]
    /\ UNCHANGED <<regVars, acc, mock, batchVars, clock>>

\* visorConn: hv.mu.RLock() returns
ReqRLock(r) ==
    /\ req[r].pc = "rlock"
    /\ CanRLock
    /\ mu' = RLock(<<"req", r>>)
    /\ req' = [req EXCEPT ![r].pc = "rlocked"]
    /\ UNCHANGED <<visors, lastIns, acc, mock, batchVars, clock>>

\* what visorCtx does with the pair visorConn returned
AfterLookupNoCheck(rq, conn, ok) ==
    [rq EXCEPT !.conn = conn, !.lookups = @ + 1,
               !.pc = IF Chain(rq.kind) = "visor" THEN "ctx" ELSE "node",
               !.vok = IF Chain(rq.kind) = "visor" THEN "true" ELSE "pending"]
AfterLookup(rq, conn, ok) ==
    IF ~ok THEN StageFail([rq EXCEPT !.lookups = @ + 1], "node", 404)
    ELSE [rq EXCEPT !.conn = conn, !.lookups = @ + 1,
                    !.pc = IF Chain(rq.kind) = "visor" THEN "ctx" ELSE "node",
                    !.vok = IF Chain(rq.kind) = "visor" THEN "true" ELSE "pending"]

\* visorConn: conn, ok := hv.visors[pk]; hv.mu.RUnlock(); back in visorCtx
ReqLookup(r) ==
    /\ req[r].pc = "rlocked"
    /\ mu' = RUnlock(<<"req", r>>)
    /\ LET pk == pkFromParam(req[r].pkTok).pk IN
       req' = [req EXCEPT ![r] = AfterLookup(req[r], visors[pk], pk \in Keys(visors))]
    /\ UNCHANGED <<visors, lastIns, acc, mock, batchVars, clock>>

\* appCtx after visorCtx: apps, err := ctx.RPC.Apps()
AppCtxCall(r) ==
    /\ req[r].pc = "node"
    /\ Chain(req[r].kind) = "app"
    /\ req' = [req EXCEPT ![r] = [CallRPC(req[r], "Apps") EXCEPT !.pc = "apps"]]
    /\ UNCHANGED <<regVars, acc, mock, batchVars, clock>>

\* the index of the first app named name, 0 if there is none
LastNamed(apps, name) ==
    IF \E i \in 1..Len(apps) : apps[i].name = name
    THEN CHOOSE i \in 1..Len(apps) :
           /\ apps[i].name = name
           /\ \A j \in (i + 1)..Len(apps) : apps[j].name # name
    ELSE 0
FirstNamed(apps, name) ==
    IF \E i \in 1..Len(apps) : apps[i].name = name
    THEN CHOOSE i \in 1..Len(apps) :
           /\ apps[i].name = name
           /\ \A j \in 1..(i - 1) : apps[j].name # name
    ELSE 0

\* appCtx: Apps() returns
AppCtxReturn(r, out, apps) ==
    /\ req[r].pc = "apps"
    /\ LET rq == [req[r] EXCEPT !.rets = Append(@, out),
                                !.apps = IF out = "ok" THEN apps ELSE <<>>]
           name == req[r].argTok[1] IN
       req' = [req EXCEPT ![r] =
                 IF out # "ok" THEN StageFail(rq, "app", 500)
                 ELSE IF FirstNamed(apps, name) = 0 THEN StageFail(rq, "app", 404)
                 ELSE [rq EXCEPT !.app = apps[FirstNamed(apps, name)],
                                 !.vok = "true", !.pc = "ctx"]]
    /\ UNCHANGED <<regVars, acc, mock, batchVars, clock>>

\* tpCtx after visorCtx: uuidFromParam, then tp, err := ctx.RPC.Transport(tid)
TpCtxCall(r) ==
    /\ req[r].pc = "node"
    /\ Chain(req[r].kind) = "tp"
    /\ req' = [req EXCEPT ![r] =
                 IF uuidFromParam(req[r].argTok).err THEN StageFail(req[r], "tp", 400)
                 ELSE [CallRPC(req[r], "Transport") EXCEPT !.pc = "tp"]]
    /\ UNCHANGED <<regVars, acc, mock, batchVars, clock>>

\* the status tpCtx writes for err != nil
TpErrStatusAll500(out) == 500
TpErrStatus(out) == IF out = "notfound" THEN 404 ELSE 500

\* tpCtx: Transport(tid) returns
TpCtxReturn(r, out) ==
    /\ req[r].pc = "tp"
    /\ LET rq == [req[r] EXCEPT !.rets = Append(@, out)] IN
       req' = [req EXCEPT ![r] =
                 IF out # "ok" THEN StageFail(rq, "tp", TpErrStatus(out))
                 ELSE [rq EXCEPT !.tp = [id |-> uuidFromParam(req[r].argTok).id],
                                 !.vok = "true", !.pc = "ctx"]]
    /\ UNCHANGED <<regVars, acc, mock, batchVars, clock>>

\* routeCtx after visorCtx: ridFromParam, ctx.RtKey = rid
RouteCtx(r) ==
    /\ req[r].pc = "node"
    /\ Chain(req[r].kind) = "route"
    /\ req' = [req EXCEPT ![r] =
                 IF ridFromParam(req[r].argTok).err THEN StageFail(req[r], "route", 400)
                 ELSE [req[r] EXCEPT !.rtKey = ridFromParam(req[r].argTok).rid,
                                     !.vok = "true", !.pc = "ctx"]]
    /\ UNCHANGED <<regVars, acc, mock, batchVars, clock>>

\* withCtx: vFunc returned ok, hFunc runs up to its RPC call
HandlerStart(r) ==
    /\ req[r].pc = "ctx"
    /\ req[r].kind \in Kinds
    /\ LET rq == [req[r] EXCEPT !.ran = TRUE] IN
       req' = [req EXCEPT ![r] =
                 IF ParsesInput(rq.kind) /\ ~rq.inputOK
                 THEN [WriteJSON(rq, 400) EXCEPT !.pc = "done"]
                 ELSE IF Method(rq.kind) = ""
                 THEN [WriteJSON(rq, 200) EXCEPT !.pc = "done"]
                 ELSE [CallRPC(rq, Method(rq.kind)) EXCEPT !.pc = "hrpc"]]
    /\ UNCHANGED <<regVars, acc, mock, batchVars, clock>>

\* the handler's RPC call returns; empty: LogsSince returned no logs
HandlerReturn(r, out, empty) ==
    /\ req[r].pc = "hrpc"
    /\ LET rq == [req[r] EXCEPT !.rets = Append(@, out)] IN
       req' = [req EXCEPT ![r] =
                 IF out # "ok" THEN [WriteJSON(rq, ErrStatus(rq.kind)) EXCEPT !.pc = "done"]
                 ELSE IF rq.kind = "appLogsSince" /\ empty
                 THEN [WriteJSON(rq, 500) EXCEPT !.pc = "done"]
                 ELSE [WriteJSON(rq, 200) EXCEPT !.pc = "done"]]
    /\ UNCHANGED <<regVars, acc, mock, batchVars, clock>>

\* ------------------------------------------------------------------- putApp
statusStop == 0
statusStart == 1
skysocksName == "skysocks"
skysocksClientName == "skysocks-client"

\* one of putApp's RPC calls is issued; step is the block of the handler it is in
PutAppCall(rq, method, step) ==
    [CallRPC(rq, method) EXCEPT !.pc = "putrpc", !.step = step]

\* httputil.WriteJSON(w, r, http.StatusOK, ctx.App)
PutAppFinish(rq) == [WriteJSON(rq, 200) EXCEPT !.pc = "done"]

\* if reqBody.Status != nil { switch *reqBody.Status ... }
PutAppStatus(rq) ==
    IF rq.body.status = <<>> THEN PutAppFinish(rq)
    ELSE IF rq.body.status[1] = statusStop THEN PutAppCall(rq, "StopApp", 4)
    ELSE IF rq.body.status[1] = statusStart THEN PutAppCall(rq, "StartApp", 4)
    ELSE [WriteJSON(rq, 400) EXCEPT !.pc = "done"]

\* if reqBody.PK != nil && ctx.App.Name == skysocksClientName
PutAppPK(rq) ==
    IF rq.body.pk # <<>> /\ rq.app.name = skysocksClientName
    THEN PutAppCall(rq, "SetSocksClientPK", 3)
    ELSE PutAppStatus(rq)

\* if reqBody.Passcode != nil && ctx.App.Name == skysocksName
PutAppPasscode(rq) ==
    IF rq.body.passcode # <<>> /\ rq.app.name = skysocksName
    THEN PutAppCall(rq, "SetSocksPassword", 2)
    ELSE PutAppPK(rq)

\* if reqBody.AutoStart != nil { if *reqBody.AutoStart != ctx.App.AutoStart
PutAppAutoStart(rq) ==
    IF rq.body.autoStart # <<>> /\ rq.body.autoStart[1] # rq.app.autoStart
    THEN PutAppCall(rq, "SetAutoStart", 1)
    ELSE PutAppPasscode(rq)

\* the handler from the return of the RPC call of block rq.step on
PutAppResumeDespiteErr(rq, out) ==
    CASE rq.step = 1 -> PutAppPasscode(rq)
      [] rq.step = 2 -> PutAppPK(rq)
      [] rq.step = 3 -> PutAppStatus(rq)
      [] OTHER -> PutAppFinish(rq)
PutAppResume(rq, out) ==
    IF out # "ok" THEN [WriteJSON(rq, 500) EXCEPT !.pc = "done"]
    ELSE CASE rq.step = 1 -> PutAppPasscode(rq)
           [] rq.step = 2 -> PutAppPK(rq)
           [] rq.step = 3 -> PutAppStatus(rq)
           [] OTHER -> PutAppFinish(rq)

\* withCtx: appCtx returned ok; putApp reads the body and runs up to its
\* first RPC call or, when it has none to make, to its response
PutAppStart(r, body) ==
    /\ req[r].pc = "ctx"
    /\ req[r].kind = "putApp"
    /\ LET rq == [req[r] EXCEPT !.ran = TRUE] IN
       req' = [req EXCEPT ![r] =
                 IF ~rq.inputOK THEN [WriteJSON(rq, 400) EXCEPT !.pc = "done"]
                 ELSE PutAppAutoStart([rq EXCEPT !.body = body])]
    /\ UNCHANGED <<regVars, acc, mock, batchVars, clock>>

\* the RPC call putApp is waiting for returns
PutAppReturn(r, out) ==
    /\ req[r].pc = "putrpc"
    /\ req' = [req EXCEPT ![r] = PutAppResume([req[r] EXCEPT !.rets = Append(@, out)], out)]
    /\ UNCHANGED <<regVars, acc, mock, batchVars, clock>>

\* ---------------------------------------------------------------- getHealth
healthTimeout == 5

\* VisorHealth
VisorHealth(status, info) == [status |-> status, info |-> info]

\* resCh, tCh, the goroutine calling ctx.RPC.Health(); the handler parks in select
HealthStart(r) ==
    /\ req[r].pc = "ctx"
    /\ req[r].kind = "getHealth"
    /\ req' = [req EXCEPT ![r] =
                 [CallRPC(req[r], "Health") EXCEPT !.ran = TRUE, !.g = "rpc",
                                                   !.deadline = clock + healthTimeout,
                                                   !.pc = "select"]]
    /\ UNCHANGED <<regVars, acc, mock, batchVars, clock>>

\* case res := <-resCh
OnResultIgnoreErr(rq, out) ==
    [WriteJSON(rq, 200) EXCEPT !.vh = Append(@, VisorHealth(200, TRUE)), !.pc = "done"]
OnResult(rq, out) ==
    [WriteJSON(rq, 200) EXCEPT
        !.vh = Append(@, IF out # "ok" THEN VisorHealth(500, FALSE) ELSE VisorHealth(200, TRUE)),
        !.pc = "done"]

\* case <-tCh
OnTimeoutKeepWaiting(rq) == rq
OnTimeout(rq) ==
    [WriteJSON(rq, 408) EXCEPT !.vh = Append(@, VisorHealth(408, FALSE)), !.pc = "done"]

\* what the goroutine's send on resCh does: resCh is unbuffered, so the send
\* completes only by handing the value to the handler parked in select
SendBuffered(rq, out) ==
    IF rq.pc = "select" THEN [OnResult(rq, out) EXCEPT !.g = "exited"]
    ELSE [rq EXCEPT !.g = "exited"]
Send(rq, out) ==
    IF rq.pc = "select" THEN [OnResult(rq, out) EXCEPT !.g = "exited"]
    ELSE [rq EXCEPT !.g = "blocked"]

\* Health() returns in the goroutine, which then sends on resCh
HealthReturn(r, out) ==
    /\ req[r].g = "rpc"
    /\ req' = [req EXCEPT ![r] =
                 Send([req[r] EXCEPT !.rets = Append(@, out), !.tRet = clock], out)]
    /\ UNCHANGED <<regVars, acc, mock, batchVars, clock>>

\* the timer of time.After(healthTimeout) fires
TimerFire(r) ==
    /\ req[r].deadline >= 0
    /\ ~req[r].fired
    /\ clock >= req[r].deadline
    /\ req' = [req EXCEPT ![r] =
                 IF req[r].pc = "select" THEN OnTimeout([req[r] EXCEPT !.fired = TRUE])
                 ELSE [req[r] EXCEPT !.fired = TRUE]]
    /\ UNCHANGED <<regVars, acc, mock, batchVars, clock>>

\* a second passes; a timer that is due fires before time moves on
Tick ==
    /\ clock < MaxClock
    /\ \A r \in Reqs : req[r].deadline >= 0 /\ ~req[r].fired => clock < req[r].deadline
    /\ clock' = clock + 1
    /\ UNCHANGED <<regVars, acc, mock, batchVars, req>>

\* ------------------------------------------------------------------- Init
Init ==
    /\ visors = [k \in PKs |-> NoConn]
    /\ mu = [readers |-> {}, writer |-> NoTask, wcs |-> FALSE]
    /\ acc = [pc |-> "accept", n |-> 0, conn |-> NoConn, err |-> FALSE]
    /\ mock = [pc |-> "loop", i |-> 0, conn |-> NoConn]
    /\ lastIns = [k \in PKs |-> NoConn]
    /\ bpc = [b \in Batches |-> "idle"]
    /\ snap = [b \in Batches |-> <<>>]
    /\ summaries = [b \in Batches |-> <<>>]
    /\ task = [b \in Batches |-> <<>>]
    /\ wg = [b \in Batches |-> 0]
    /\ bresp = [b \in Batches |-> <<>>]
    /\ req = [r \in Reqs |-> ZeroReq]
    /\ clock = 0

Next ==
    \/ \E pk \in PKs : AccAccept(pk)
    \/ AccFail
    \/ AccLock
    \/ AccEnter
    \/ AccInsert
    \/ \E pk \in PKs : MockNew(pk)
    \/ MockLock
    \/ MockEnter
    \/ MockInsert
    \/ \E b \in Batches : BatchCall(b)
    \/ \E b \in Batches : BatchStart(b)
    \/ \E b \in Batches, i \in 1..NumPK, ok \in BOOLEAN : SummaryReturn(b, i, ok)
    \/ \E b \in Batches : BatchJoin(b)
    \/ \E b \in Batches : BatchRespond(b)
    \/ \E r \in Reqs, pkTok \in PKToks : ReqArrive(r, "getUptime", pkTok, <<>>, TRUE)
    \/ \E r \in Reqs : ReqRLock(r)
    \/ \E r \in Reqs : ReqLookup(r)
    \/ \E r \in Reqs : HandlerStart(r)
    \/ \E r \in Reqs, out \in Outcomes : HandlerReturn(r, out, FALSE)

Spec == Init /\ [][Next]_vars

\* the resolver chain and the handlers, next to the accept loop
ReqActions ==
    \/ \E r \in Reqs, kind \in Kinds, pkTok \in PKToks, inputOK \in BOOLEAN :
         \E argTok \in ArgToks(kind) : ReqArrive(r, kind, pkTok, argTok, inputOK)
    \/ \E r \in Reqs : ReqRLock(r)
    \/ \E r \in Reqs : ReqLookup(r)
    \/ \E r \in Reqs : AppCtxCall(r)
    \/ \E r \in Reqs, out \in Outcomes, apps \in AppLists : AppCtxReturn(r, out, apps)
    \/ \E r \in Reqs : TpCtxCall(r)
    \/ \E r \in Reqs, out \in Outcomes : TpCtxReturn(r, out)
    \/ \E r \in Reqs : RouteCtx(r)
    \/ \E r \in Reqs : HandlerStart(r)
    \/ \E r \in Reqs, out \in Outcomes, empty \in BOOLEAN : HandlerReturn(r, out, empty)

NextReq ==
    \/ \E pk \in PKs : AccAccept(pk)
    \/ AccFail
    \/ AccLock
    \/ AccEnter
    \/ AccInsert
    \/ ReqActions

SpecReq == Init /\ [][NextReq]_vars

\* putApp behind its resolver chain, next to the accept loop
NextPutApp ==
    \/ \E pk \in PKs : AccAccept(pk)
    \/ AccFail
    \/ AccLock
    \/ AccEnter
    \/ AccInsert
    \/ \E r \in Reqs, pkTok \in PKToks, argTok \in AppToks, inputOK \in BOOLEAN :
         ReqArrive(r, "putApp", pkTok, argTok, inputOK)
    \/ \E r \in Reqs : ReqRLock(r)
    \/ \E r \in Reqs : ReqLookup(r)
    \/ \E r \in Reqs : AppCtxCall(r)
    \/ \E r \in Reqs, out \in Outcomes, apps \in AppLists : AppCtxReturn(r, out, apps)
    \/ \E r \in Reqs, body \in Bodies : PutAppStart(r, body)
    \/ \E r \in Reqs, out \in Outcomes : PutAppReturn(r, out)

SpecPutApp == Init /\ [][NextPutApp]_vars

\* the health probe, next to the accept loop and the clock
NextHealth ==
    \/ \E pk \in PKs : AccAccept(pk)
    \/ AccFail
    \/ AccLock
    \/ AccEnter
    \/ AccInsert
    \/ \E r \in Reqs, pkTok \in PKToks : ReqArrive(r, "getHealth", pkTok, <<>>, TRUE)
    \/ \E r \in Reqs : ReqRLock(r)
    \/ \E r \in Reqs : ReqLookup(r)
    \/ \E r \in Reqs : HealthStart(r)
    \/ \E r \in Reqs, out \in Outcomes : HealthReturn(r, out)
    \/ \E r \in Reqs : TimerFire(r)
    \/ Tick

SpecHealth == Init /\ [][NextHealth]_vars

\* the fan-out next to the accept loop, when every goroutine gets to run
\* and every Summary call returns
NextJoin ==
    \/ \E pk \in PKs : AccAccept(pk)
    \/ AccFail
    \/ AccLock
    \/ AccEnter
    \/ AccInsert
    \/ \E b \in Batches : BatchCall(b)
    \/ \E b \in Batches : BatchStart(b)
    \/ \E b \in Batches, i \in 1..NumPK, ok \in BOOLEAN : SummaryReturn(b, i, ok)
    \/ \E b \in Batches : BatchJoin(b)
    \/ \E b \in Batches : BatchRespond(b)

\* every goroutine of the process that can take its next step takes it
FairSched ==
    /\ WF_vars(AccLock)
    /\ WF_vars(AccEnter)
    /\ WF_vars(AccInsert)
    /\ \A b \in Batches :
         /\ WF_vars(BatchStart(b))
         /\ WF_vars(BatchJoin(b))
         /\ WF_vars(BatchRespond(b))

\* and every Summary call returns
FairJoin ==
    /\ FairSched
    /\ \A b \in Batches :
         WF_vars(\E i \in 1..NumPK, ok \in BOOLEAN : SummaryReturn(b, i, ok))

SpecJoin == Init /\ [][NextJoin]_vars /\ FairJoin

\* the same, with no promise that a remote node answers
SpecSched == Init /\ [][NextJoin]_vars /\ FairSched
\* ------------------------------------------------------------------ claims
Last(s) == s[Len(s)]
Failed(b) == {i \in DOMAIN task[b] : task[b][i] = "err"}
Offline(body) == {i \in DOMAIN body : ~body[i].online}

\* C1: the body getVisors writes has one entry per snapshot entry; the
\* entries of the nodes whose Summary RPC failed, and only those, are
\* offline and carry just the node's address and public key; every other
\* entry is online with the node's full summary.
C1_ScatterGather ==
    \A b \in Batches : bresp[b] # <<>> =>
        LET body == bresp[b][1] IN
        /\ Len(bresp[b]) = 1
        /\ Len(body) = Len(snap[b])
        /\ Offline(body) = Failed(b)
        /\ Cardinality(Offline(body)) = Cardinality(Failed(b))
        /\ \A i \in DOMAIN body :
             /\ body[i].tcpAddr = snap[b][i].c.addr
             /\ body[i].summary.pk = snap[b][i].pk
             /\ body[i].online = body[i].summary.full
             /\ task[b][i] = "err" => body[i].summary = [pk |-> snap[b][i].pk, full |-> FALSE]
             /\ task[b][i] = "ok" => body[i].summary = [pk |-> snap[b][i].pk, full |-> TRUE]

\* a batch over two nodes has responded, one node failed and one did not
C1_Witness ==
    \E b \in Batches :
        /\ bresp[b] # <<>>
        /\ Len(bresp[b][1]) = 2
        /\ Cardinality(Failed(b)) = 1
        /\ \E i \in 1..2 : bresp[b][1][i].online

\* C2: a Health call that returns before the deadline decides the response
\* (200 with the call's result); when the timer fires first the response
\* is 408, already written while the call is still out, and it stays 408
\* whatever the call returns later.
C2_HealthRace ==
    \A r \in Reqs : req[r].kind = "getHealth" =>
        /\ (req[r].tRet >= 0 /\ req[r].tRet < req[r].deadline) =>
              /\ req[r].resp = <<200>>
              /\ req[r].vh = <<IF req[r].rets[1] = "ok" THEN VisorHealth(200, TRUE)
                                ELSE VisorHealth(500, FALSE)>>
        /\ (req[r].fired /\ (req[r].tRet < 0 \/ req[r].tRet > req[r].deadline)) =>
              /\ req[r].resp = <<408>>
              /\ req[r].vh = <<VisorHealth(408, FALSE)>>

\* the deadline fired first and the call succeeded afterwards
C2_Witness ==
    \E r \in Reqs :
        /\ req[r].fired
        /\ req[r].tRet > req[r].deadline
        /\ req[r].rets = <<"ok">>
        /\ req[r].resp = <<408>>

\* C3: a lookup of k yields the VisorConn of the last insert for k, and
\* not-found (404 from the node stage) when k was never inserted.
C3_LastWriterWins ==
    [][\A r \in Reqs :
         (req[r].pc = "rlocked" /\ req'[r].pc # "rlocked") =>
            LET pk == pkFromParam(req[r].pkTok).pk IN
            /\ lastIns[pk] # NoConn =>
                 /\ req'[r].conn = lastIns[pk]
                 /\ req'[r].vok # "false"
            /\ lastIns[pk] = NoConn =>
                 /\ req'[r].conn = NoConn
                 /\ req'[r].failed = "node"
                 /\ req'[r].resp = <<404>>]_vars

\* the second stream came from the key of the first, and a lookup got it
C3_Witness ==
    \E r \in Reqs :
        /\ req[r].conn # NoConn
        /\ req[r].conn.rpc = <<"stream", 2>>
        /\ Keys(visors) = {req[r].conn.addr.pk}
        /\ acc.n = 2

BatchRpcOutstanding(b) == bpc[b] = "wait" /\ \E i \in DOMAIN task[b] : task[b][i] = "run"
\* a writer that has called Lock and waits for a batch whose RPCs are out
WriterWaitsOnRpc ==
    /\ mu.writer # NoTask
    /\ ~mu.wcs
    /\ \E b \in Batches : <<"batch", b>> \in mu.readers /\ BatchRpcOutstanding(b)
\* a lookup that has called RLock and waits behind such a writer
LookupWaitsOnRpc == WriterWaitsOnRpc /\ \E r \in Reqs : req[r].pc = "rlock"

\* C4: no Insert and no Lookup ever waits on a Summary RPC of a batch:
\* an Insert never waits for the lock while a batch with outstanding RPCs
\* holds it, and a Lookup never waits behind such an Insert.
C4_NoRegistryOpWaitsOnRpc == ~WriterWaitsOnRpc /\ ~LookupWaitsOnRpc

\* C5: once Health() has returned, the goroutine that called it has exited.
C5_NoLeak ==
    \A r \in Reqs : req[r].tRet >= 0 => req[r].g = "exited"

SnapPKs(b) == {snap[b][i].pk : i \in DOMAIN snap[b]}

\* C6: a batch gets one slot per key the registry holds when the batch
\* starts, and from then until its response is written neither the number
\* of slots nor the nodes it reports change, whatever is inserted meanwhile.
C6_SlotCountFixed ==
    [][\A b \in Batches :
         /\ (bpc[b] = "rlock" /\ bpc'[b] = "wait") =>
               /\ Len(summaries'[b]) = Cardinality(Keys(visors))
               /\ Len(snap'[b]) = Len(summaries'[b])
               /\ SnapPKs(b)' = Keys(visors)
         /\ bpc[b] \in {"wait", "joined"} =>
               /\ Len(summaries'[b]) = Len(summaries[b])
               /\ snap'[b] = snap[b]
         /\ (bpc[b] = "joined" /\ bpc'[b] = "done") =>
               /\ Len(bresp'[b][1]) = Len(snap[b])
               /\ {bresp'[b][1][i].summary.pk : i \in DOMAIN bresp'[b][1]} = SnapPKs(b)]_vars

\* an insert of a new key went through before the batch wrote its response
C6_Witness ==
    \E b \in Batches :
        /\ bpc[b] = "joined"
        /\ Len(summaries[b]) >= 1
        /\ Cardinality(Keys(visors)) > Len(summaries[b])

\* the node stage failed: the key did not parse, or the lookup found nothing
NodeStageFailed(r) ==
    /\ req[r].pc # "idle"
    /\ \/ pkFromParam(req[r].pkTok).err
       \/ req[r].lookups >= 1 /\ req[r].conn = NoConn

\* C7: a request whose node stage failed issues no RPC call at all.
C7_NodeFailureNoRpc ==
    \A r \in Reqs : NodeStageFailed(r) =>
        /\ req[r].calls = <<>>
        /\ req[r].rets = <<>>
        /\ req[r].pc = "done"

\* a transport route asked for a key that is absent while another is present
C7_Witness ==
    \E r \in Reqs :
        /\ req[r].kind \in TpKinds
        /\ req[r].lookups = 1
        /\ req[r].conn = NoConn
        /\ req[r].resp = <<404>>
        /\ Keys(visors) # {}

\* the statuses each stage can fail with
StageStatuses(stage) ==
    CASE stage = "node" -> {400, 404}
      [] stage = "app" -> {500, 404}
      [] stage = "tp" -> {400, 404, 500}
      [] stage = "route" -> {400}
      [] OTHER -> {}

\* C8: a failed stage leaves exactly one response, written by that stage,
\* nothing after it runs and the handler is not invoked; the handler is
\* invoked only with a context every stage of its chain has filled in.
C8_StageFailureTerminal ==
    \A r \in Reqs :
        /\ req[r].vok = "false" =>
              /\ Len(req[r].resp) = 1
              /\ req[r].resp[1] \in StageStatuses(req[r].failed)
              /\ ~req[r].ran
              /\ req[r].pc = "done"
              /\ req[r].failed = "node" => req[r].calls = <<>>
              /\ Len(req[r].calls) <= 1
              /\ req[r].app = NoApp /\ req[r].tp = NoTp /\ req[r].rtKey = U32(0, 0)
        /\ req[r].ran =>
              /\ req[r].vok = "true"
              /\ req[r].failed = "none"
              /\ req[r].conn # NoConn
              /\ Chain(req[r].kind) = "app" => req[r].app # NoApp
              /\ Chain(req[r].kind) = "tp" => req[r].tp # NoTp
              /\ Chain(req[r].kind) = "route" => ~ridFromParam(req[r].argTok).err

\* the application stage failed after the node stage had succeeded
C8_Witness ==
    \E r \in Reqs :
        /\ req[r].failed = "app"
        /\ req[r].conn # NoConn
        /\ req[r].resp = <<404>>
        /\ ~req[r].ran

\* C9: a request whose RPC call failed with an error other than not-found
\* is answered 500.
C9_RemoteFailureIs500 ==
    \A r \in Reqs :
        (req[r].pc = "done" /\ req[r].rets # <<>> /\ Last(req[r].rets) = "other") =>
            req[r].resp = <<500>>

\* C10: the transport stage answers 404 when Transport(tid) fails with the
\* not-found error and 500 when it fails otherwise; the transport is in
\* the context, and the handler runs, only when the call succeeded.
C10_TransportStage ==
    \A r \in Reqs : Chain(req[r].kind) = "tp" =>
        /\ req[r].rets # <<>> =>
              /\ req[r].calls[1] = "Transport"
              /\ req[r].rets[1] = "notfound" =>
                    req[r].resp = <<404>> /\ req[r].failed = "tp" /\ ~req[r].ran
              /\ req[r].rets[1] = "other" =>
                    req[r].resp = <<500>> /\ req[r].failed = "tp" /\ ~req[r].ran
              /\ req[r].rets[1] = "ok" =>
                    /\ req[r].tp = [id |-> uuidFromParam(req[r].argTok).id]
                    /\ req[r].vok = "true"
        /\ (req[r].tp # NoTp \/ req[r].ran) =>
              req[r].rets # <<>> /\ req[r].rets[1] = "ok"

\* Transport(tid) failed with not-found and the stage answered 404
C10_Witness ==
    \E r \in Reqs :
        /\ req[r].kind \in TpKinds
        /\ req[r].rets = <<"notfound">>
        /\ req[r].resp = <<404>>
\* C11: a request that reaches the transport stage with a transport ID
\* that is not a UUID is answered 400 and issues no RPC call.
C11_MalformedTid ==
    \A r \in Reqs :
        (/\ Chain(req[r].kind) = "tp"
         /\ req[r].conn # NoConn
         /\ req[r].pc # "node"
         /\ req[r].argTok \notin UuidToks) =>
            /\ req[r].resp = <<400>>
            /\ req[r].calls = <<>>
            /\ req[r].failed = "tp"
            /\ req[r].pc = "done"

\* the node resolved and the transport stage refused the ID
C11_Witness ==
    \E r \in Reqs :
        /\ req[r].kind = "deleteTransport"
        /\ req[r].conn # NoConn
        /\ req[r].argTok = <<"not-a-uuid">>
        /\ req[r].resp = <<400>>

HealthSuccess == <<200, VisorHealth(200, TRUE)>>
HealthFailure == <<200, VisorHealth(500, FALSE)>>
HealthTimeout == <<408, VisorHealth(408, FALSE)>>

\* C12: a health request writes nothing before it ends and exactly one
\* response when it ends: the success response when the call returned
\* first without error, the failure response when it returned first with
\* an error, the timeout response when the timer fired first; the three
\* responses differ from each other.
C12_HealthOutcomes ==
    \A r \in Reqs : req[r].kind = "getHealth" =>
        /\ req[r].pc # "done" => req[r].resp = <<>> /\ req[r].vh = <<>>
        /\ (req[r].pc = "done" /\ req[r].ran) =>
              /\ Len(req[r].resp) = 1 /\ Len(req[r].vh) = 1
              /\ LET answer == <<req[r].resp[1], req[r].vh[1]>> IN
                 /\ (req[r].g = "exited" /\ req[r].rets[1] = "ok") => answer = HealthSuccess
                 /\ (req[r].g = "exited" /\ req[r].rets[1] # "ok") => answer = HealthFailure
                 /\ req[r].g # "exited" => answer = HealthTimeout /\ req[r].fired
                 /\ answer = HealthTimeout => req[r].g # "exited"
                 /\ answer = HealthFailure => req[r].g = "exited" /\ req[r].rets[1] # "ok"
                 /\ answer = HealthSuccess => req[r].g = "exited" /\ req[r].rets[1] = "ok"

\* the call failed before the deadline
C12_Witness ==
    \E r \in Reqs :
        /\ req[r].g = "exited"
        /\ req[r].rets = <<"other">>
        /\ ~req[r].fired
        /\ req[r].vh = <<VisorHealth(500, FALSE)>>

Count(s, x) == Cardinality({i \in DOMAIN s : s[i] = x})

\* C13: the application stage calls Apps() once; it answers 500 when the
\* call fails and 404 when no listed application has the requested name;
\* otherwise it attaches the first listed application of that name, and
\* the handler runs with that application.
C13_AppStage ==
    \A r \in Reqs : Chain(req[r].kind) = "app" =>
        LET name == req[r].argTok[1]
            named == {i \in DOMAIN req[r].apps : req[r].apps[i].name = name} IN
        /\ Count(req[r].calls, "Apps") <= 1
        /\ req[r].conn # NoConn /\ req[r].pc # "node" => Count(req[r].calls, "Apps") = 1
        /\ req[r].rets # <<>> =>
              /\ req[r].calls[1] = "Apps"
              /\ req[r].rets[1] # "ok" =>
                    req[r].resp = <<500>> /\ req[r].failed = "app" /\ ~req[r].ran
              /\ (req[r].rets[1] = "ok" /\ named = {}) =>
                    req[r].resp = <<404>> /\ req[r].failed = "app" /\ ~req[r].ran
              /\ (req[r].rets[1] = "ok" /\ named # {}) =>
                    /\ req[r].vok = "true"
                    /\ \E i \in named :
                         /\ req[r].app = req[r].apps[i]
                         /\ \A j \in named : i <= j
        /\ req[r].ran => req[r].app # NoApp /\ req[r].app.name = name

\* two applications carry the requested name and the handler got the first
C13_Witness ==
    \E r \in Reqs :
        /\ req[r].ran
        /\ Len(req[r].apps) = 2
        /\ req[r].apps[1].name = req[r].apps[2].name
        /\ req[r].app = req[r].apps[1]

RECURSIVE StripZeros(_)
StripZeros(s) == IF Len(s) > 1 /\ s[1] = "0" THEN StripZeros(Tail(s)) ELSE s
MaxUint32Digits == <<"4", "2", "9", "4", "9", "6", "7", "2", "9", "5">>
\* digit strings of equal length: a is at most b
DigitsLeq(a, b) ==
    \/ a = b
    \/ \E i \in 1..Len(a) :
         /\ DigitVal(a[i]) < DigitVal(b[i])
         /\ \A j \in 1..(i - 1) : a[j] = b[j]
\* the token is a decimal numeral for a value in 0..2^32-1
IsUint32Numeral(tok) ==
    /\ tok # <<>>
    /\ \A i \in 1..Len(tok) : tok[i] \in {"0", "1", "2", "3", "4", "5", "6", "7", "8", "9"}
    /\ \/ Len(StripZeros(tok)) < 10
       \/ Len(StripZeros(tok)) = 10 /\ DigitsLeq(StripZeros(tok), MaxUint32Digits)
\* the numeral's value modulo m
RECURSIVE NumeralMod(_, _)
NumeralMod(tok, m) ==
    IF tok = <<>> THEN 0
    ELSE (10 * NumeralMod(SubSeq(tok, 1, Len(tok) - 1), m) + DigitVal(tok[Len(tok)])) % m
\* pairwise coprime, product above 2^32: a value below 2^32 is fixed by its residues
Moduli == {1009, 1013, 1019, 1021}
SameValue(u, tok) ==
    \A m \in Moduli : ((u.hi % m) * (Half % m) + u.lo) % m = NumeralMod(tok, m)

\* C14: once the route stage has run, the route ID is in the context with
\* the numeral's value when the token is a decimal numeral in 0..2^32-1,
\* and the request is answered 400 otherwise; the stage issues no RPC call.
C14_RouteStage ==
    \A r \in Reqs :
        (Chain(req[r].kind) = "route" /\ req[r].conn # NoConn /\ req[r].pc # "node") =>
            /\ IsUint32Numeral(req[r].argTok) =>
                  /\ req[r].vok = "true"
                  /\ req[r].rtKey.hi \in 0..(Half - 1) /\ req[r].rtKey.lo \in 0..(Half - 1)
                  /\ SameValue(req[r].rtKey, req[r].argTok)
            /\ ~IsUint32Numeral(req[r].argTok) =>
                  /\ req[r].resp = <<400>>
                  /\ req[r].failed = "route"
                  /\ req[r].calls = <<>>
                  /\ ~req[r].ran
            /\ ~req[r].ran => req[r].calls = <<>>

\* 2^32-1 was accepted
C14_Witness ==
    \E r \in Reqs :
        /\ req[r].kind \in RouteKinds
        /\ req[r].argTok = MaxUint32Digits
        /\ req[r].vok = "true"
        /\ req[r].rtKey = MaxUint32
\* C15: the accept loop accepts only when the stream before has been
\* inserted, passes from the accept through Lock to the insert without
\* skipping, and the insert always stores the stream's VisorConn under the
\* stream's public key, whatever the registry already holds; and every
\* accepted stream does get inserted.
C15_AcceptInserts ==
    /\ (acc.pc = "lock") ~> (acc.pc = "accept")
    /\ [][/\ acc'.n # acc.n =>
               /\ acc.pc = "accept" /\ acc.conn = NoConn
               /\ acc'.pc = "lock" /\ acc'.n = acc.n + 1
               /\ acc'.conn.rpc = <<"stream", acc.n + 1>>
               /\ acc'.conn.addr.pk \in PKs
          /\ acc.pc = "lock" => acc'.pc \in {"lock", "announced"} /\ acc'.conn = acc.conn
          /\ acc.pc = "announced" => acc'.pc \in {"announced", "cs"} /\ acc'.conn = acc.conn
          /\ acc.pc = "cs" => acc'.pc \in {"cs", "accept"}
          /\ (acc.pc = "cs" /\ acc'.pc = "accept") =>
               /\ visors' = [visors EXCEPT ![acc.conn.addr.pk] = acc.conn]
               /\ visors'[acc.conn.addr.pk].addr.pk = acc.conn.addr.pk
          /\ \A k \in Keys(visors) : visors[k].addr.pk = k]_vars

\* C16: once AcceptStream has failed the loop has returned for good: it
\* accepts and inserts nothing more, it does not hold the lock, and the
\* failing accept itself leaves registry and lock as they were.
C16_AcceptErrorTerminates ==
    [][/\ acc.err => acc' = acc /\ acc.pc = "returned" /\ mu.writer # "acc"
       /\ (~acc.err /\ acc'.err) =>
            /\ visors' = visors
            /\ mu' = mu
            /\ acc.conn = NoConn
            /\ acc'.pc = "returned"
       /\ (acc.err /\ visors' # visors) => mock.pc = "cs"]_vars

\* the loop has returned; a lookup and a batch are reading the entries left
C16_Witness ==
    /\ acc.err
    /\ Keys(visors) # {}
    /\ \E r \in Reqs : req[r].pc = "done" /\ req[r].conn # NoConn /\ req[r].resp = <<200>>
    /\ \E b \in Batches : bpc[b] = "wait" /\ Len(snap[b]) >= 1

\* C17: a goroutine with a remote call in flight holds neither lock.
C17_NoRpcUnderLock ==
    /\ \A b \in Batches :
         (bpc[b] = "wait" /\ \E i \in DOMAIN task[b] : task[b][i] = "run") =>
             <<"batch", b>> \notin mu.readers
    /\ \A r \in Reqs :
         (req[r].pc \in {"apps", "tp", "hrpc"} \/ req[r].g = "rpc") =>
             <<"req", r>> \notin mu.readers

WritersInside == {t \in {"acc", "mock"} : IF t = "acc" THEN acc.pc = "cs" ELSE mock.pc = "cs"}
ReadersInside ==
    {<<"req", r>> : r \in {x \in Reqs : req[x].pc = "rlocked"}}
        \cup {<<"batch", b>> : b \in {x \in Batches : bpc[x] = "wait"}}

\* C18: at most one goroutine is writing the map, and while one is, no
\* lookup and no getVisors enumeration is inside the lock.
C18_WriterExclusion ==
    /\ Cardinality(WritersInside) <= 1
    /\ WritersInside # {} => ReadersInside = {} /\ mu.readers = {}
    /\ ReadersInside # {} => WritersInside = {}
    /\ mu.readers = ReadersInside

\* the accept loop is writing while the mock insert, a lookup and a batch wait
C18_Witness ==
    /\ acc.pc = "cs"
    /\ mock.pc = "lock"
    /\ \E r \in Reqs : req[r].pc = "rlock"
    /\ \E b \in Batches : bpc[b] = "rlock"

Started(b) == bpc[b] \in {"wait", "joined", "done"}

\* C19: a started batch has one goroutine and one slot per snapshot entry,
\* indexed alike; a step writes at most one slot, the slot of the goroutine
\* whose Summary call returns in that step, with that entry's outcome; a
\* goroutine that has returned neither calls nor writes again.
C19_OneTaskPerSlot ==
    [][\A b \in Batches :
         /\ Started(b) =>
               /\ DOMAIN task[b] = 1..Len(snap[b])
               /\ DOMAIN summaries[b] = 1..Len(snap[b])
               /\ \A i \in DOMAIN task[b] :
                    /\ task[b][i] = "run" => summaries[b][i] = ZeroResp
                    /\ task[b][i] # "run" =>
                         /\ summaries[b][i].tcpAddr = snap[b][i].c.addr
                         /\ summaries[b][i].summary.pk = snap[b][i].pk
                         /\ summaries[b][i].online = (task[b][i] = "ok")
               /\ \A i, j \in DOMAIN snap[b] : i # j => snap[b][i].pk # snap[b][j].pk
         /\ (Started(b) /\ Started(b)') =>
               /\ \A i \in DOMAIN task[b] :
                    /\ task[b][i] # "run" =>
                         task'[b][i] = task[b][i] /\ summaries'[b][i] = summaries[b][i]
                    /\ summaries'[b][i] # summaries[b][i] =>
                         /\ task[b][i] = "run" /\ task'[b][i] # "run"
                         /\ \A j \in DOMAIN task[b] \ {i} :
                              summaries'[b][j] = summaries[b][j] /\ task'[b][j] = task[b][j]]_vars

\* both goroutines of a batch have written, one after a failed call
C19_Witness ==
    \E b \in Batches :
        /\ bpc[b] = "wait"
        /\ Len(snap[b]) = 2
        /\ task[b][1] = "err" /\ task[b][2] = "ok"
        /\ summaries[b][2].online /\ ~summaries[b][1].online

AllWritten(b) == \A i \in DOMAIN task[b] : task[b][i] # "run" /\ summaries[b][i] # ZeroResp

\* C20: getVisors leaves wg.Wait() and writes its response only when
\* every goroutine has written its slot, so never while a Summary call is
\* out; and when every Summary call returns, every request gets its response.
C20_Join ==
    /\ [](\A b \in Batches :
            /\ bpc[b] \in {"joined", "done"} => AllWritten(b)
            /\ bresp[b] # <<>> =>
                 /\ AllWritten(b)
                 /\ \A i \in DOMAIN bresp[b][1] : bresp[b][1][i] # ZeroResp
            /\ (\E i \in DOMAIN task[b] : task[b][i] = "run") =>
                 bresp[b] = <<>> /\ bpc[b] = "wait")
    /\ \A b \in Batches : (bpc[b] = "rlock") ~> (bpc[b] = "done" /\ bresp[b] # <<>>)

\* one goroutine has written, the other call is still out, nothing is sent
C20_Witness ==
    \E b \in Batches :
        /\ bpc[b] = "wait"
        /\ Len(snap[b]) = 2
        /\ \E i, j \in 1..2 : task[b][i] = "run" /\ task[b][j] # "run"
        /\ bresp[b] = <<>>

\* C21: a request looks its node up in the registry at most once, and exactly
\* once before any later stage or the handler runs; every RPC call of the
\* request goes to the RPC client of the handle copied at that lookup; the
\* copy never changes afterwards, also when the same key is re-inserted; no
\* step of a request changes the registry and no insert changes a request.
C21_ResolveOnce ==
    [][\A r \in Reqs :
         /\ req'[r].lookups <= 1
         /\ \/ req'[r].pc \in {"node", "apps", "tp", "ctx", "hrpc", "select"}
            \/ req'[r].ran
            \/ req'[r].calls # <<>>
            \/ req'[r].pc = "done" /\ ~pkFromParam(req'[r].pkTok).err
            => req'[r].lookups = 1
         /\ req[r].lookups = 0 /\ req'[r].lookups = 1 =>
              /\ req[r].pc = "rlocked"
              /\ req'[r].conn = visors[pkFromParam(req[r].pkTok).pk]
         /\ req[r].lookups = 1 => req'[r].conn = req[r].conn
         /\ Len(req'[r].via) = Len(req'[r].calls)
         /\ \A i \in 1..Len(req'[r].via) : req'[r].via[i] = req'[r].conn.rpc
         /\ req'[r] # req[r] => visors' = visors /\ lastIns' = lastIns
         /\ visors' # visors => req'[r] = req[r]
      ]_vars

\* the key was inserted again after the request's lookup; the request went on
\* to call the client it had copied and was answered
C21_Witness ==
    \E r \in Reqs :
        /\ req[r].pc = "done"
        /\ req[r].resp = <<200>>
        /\ Len(req[r].via) = 2
        /\ req[r].conn.rpc = <<"stream", 1>>
        /\ visors[pkFromParam(req[r].pkTok).pk].rpc = <<"stream", 2>>

\* the keys that have been inserted so far
Inserted == {pk \in PKs : lastIns[pk] # NoConn}

\* C22: no step takes a key out of the registry, so every key inserted so
\* far is in it; a lookup of an inserted key finds a handle and is not
\* answered 404; a batch that starts has a slot for every inserted key; a
\* node whose Summary call fails keeps its registry entry and its slot,
\* which reports it offline.
C22_KeysOnlyGrow ==
    [][/\ Keys(visors) \subseteq Keys(visors')
       /\ Inserted \subseteq Keys(visors)
       /\ Inserted' \subseteq Keys(visors')
       /\ \A r \in Reqs :
            (req[r].pc = "rlocked" /\ req'[r].pc # "rlocked"
               /\ pkFromParam(req[r].pkTok).pk \in Inserted) =>
                 /\ req'[r].conn # NoConn
                 /\ req'[r].lookups = 1
                 /\ req'[r].resp = <<>>
       /\ \A b \in Batches :
            /\ (bpc[b] = "rlock" /\ bpc'[b] = "wait") =>
                 /\ Inserted \subseteq SnapPKs(b)'
                 /\ Len(summaries'[b]) = Len(snap'[b])
            /\ \A i \in DOMAIN task[b] :
                 (task[b][i] = "run" /\ task'[b][i] = "err") =>
                   /\ snap[b][i].pk \in Keys(visors')
                   /\ visors'[snap[b][i].pk] = visors[snap[b][i].pk]
                   /\ summaries'[b][i].summary.pk = snap[b][i].pk
                   /\ ~summaries'[b][i].online
            /\ (bpc[b] = "joined" /\ bpc'[b] = "done") =>
                 /\ {bresp'[b][1][i].summary.pk : i \in DOMAIN bresp'[b][1]} = SnapPKs(b)
                 /\ SnapPKs(b) \subseteq Keys(visors')
      ]_vars

\* a batch reported a node offline; the node connected again afterwards and
\* a later lookup of its key found the new handle
C22_Witness ==
    \E b \in Batches, r \in Reqs :
        /\ bpc[b] = "done"
        /\ req[r].lookups = 1
        /\ req[r].conn.rpc = <<"stream", 2>>
        /\ \E i \in DOMAIN snap[b] :
             /\ ~bresp[b][1][i].online
             /\ snap[b][i].pk = pkFromParam(req[r].pkTok).pk
             /\ snap[b][i].c.rpc = <<"stream", 1>>

\* a is a prefix of b
IsPrefix(a, b) == Len(a) <= Len(b) /\ a = SubSeq(b, 1, Len(a))
\* the place of a mutating RPC in the order set-autostart, set-socks-password,
\* set-socks-client-key, stop/start
Rank(method) ==
    CASE method = "SetAutoStart" -> 1
      [] method = "SetSocksPassword" -> 2
      [] method = "SetSocksClientPK" -> 3
      [] method \in {"StopApp", "StartApp"} -> 4
      [] OTHER -> 0
\* the mutating RPCs the body of rq asks for, for the app rq resolved
Wanted(rq) ==
    (IF rq.body.autoStart \in {<<TRUE>>, <<FALSE>>} /\ rq.body.autoStart # <<rq.app.autoStart>>
     THEN <<"SetAutoStart">> ELSE <<>>)
    \o (IF rq.body.passcode # <<>> /\ rq.app.name = "skysocks"
        THEN <<"SetSocksPassword">> ELSE <<>>)
    \o (IF rq.body.pk # <<>> /\ rq.app.name = "skysocks-client"
        THEN <<"SetSocksClientPK">> ELSE <<>>)
    \o (IF rq.body.status = <<0>> THEN <<"StopApp">>
        ELSE IF rq.body.status = <<1>> THEN <<"StartApp">> ELSE <<>>)
\* the calls and returns of rq after the resolver's Apps call
Mutators(rq) == SubSeq(rq.calls, 2, Len(rq.calls))
MutatorRets(rq) == SubSeq(rq.rets, 2, Len(rq.rets))

\* what C23 says of one putApp request whose handler has started
PutAppOrdered(rq) ==
    LET mc == Mutators(rq)
        mr == MutatorRets(rq) IN
    /\ rq.calls[1] = "Apps"
    /\ \A i \in 1..Len(mc) : Rank(mc[i]) >= 1
    /\ \A i, j \in 1..Len(mc) : i < j => Rank(mc[i]) < Rank(mc[j])
    /\ IsPrefix(mc, Wanted(rq))
    /\ Len(mr) = (IF rq.pc = "putrpc" THEN Len(mc) - 1 ELSE Len(mc))
    /\ \A i \in 1..(Len(mc) - 1) : mr[i] = "ok"
    /\ Len(rq.resp) <= 1
    /\ rq.pc \in {"putrpc", "done"}
    /\ rq.pc = "done" <=> rq.resp # <<>>
    /\ (\E i \in 1..Len(mr) : mr[i] # "ok") <=> rq.resp = <<500>>
    /\ rq.resp = <<400>> =>
         \/ ~rq.inputOK /\ mc = <<>>
         \/ /\ rq.inputOK
            /\ rq.body.status \notin {<<>>, <<0>>, <<1>>}
            /\ mc = Wanted(rq)
    /\ rq.resp = <<200>> =>
         /\ rq.body.status \in {<<>>, <<0>>, <<1>>}
         /\ mc = Wanted(rq)
    /\ rq.resp \in {<<>>, <<200>>, <<400>>, <<500>>}

\* C23: putApp issues its mutating RPCs in the order SetAutoStart,
\* SetSocksPassword, SetSocksClientPK, StopApp or StartApp, each at most
\* once and each only after the ones before it returned without error; the
\* first that fails is the last one issued and the response is 500; a
\* status other than 0 and 1 is answered 400 after every other mutator the
\* body asks for was issued; once the response is written the request
\* issues nothing more, so nothing that was applied is undone.
C23_PutAppOrder ==
    [][\A r \in Reqs :
         (req'[r].kind = "putApp" /\ req'[r].ran) =>
           /\ PutAppOrdered(req'[r])
           /\ IsPrefix(req[r].calls, req'[r].calls)
           /\ IsPrefix(req[r].rets, req'[r].rets)
           /\ req[r].ran => req'[r].body = req[r].body /\ req'[r].app = req[r].app
           /\ req[r].pc = "done" => req'[r] = req[r]
      ]_vars

\* two mutators were applied before the status 2 of the same body was
\* answered 400
C23_Witness ==
    \E r \in Reqs :
        /\ req[r].kind = "putApp"
        /\ req[r].body.status = <<2>>
        /\ req[r].calls = <<"Apps", "SetAutoStart", "SetSocksPassword">>
        /\ req[r].rets = <<"ok", "ok", "ok">>
        /\ req[r].resp = <<400>>
====
